---------------------------- MODULE Spec2Model ----------------------------
(***************************************************************************)
(* A model of fairnessIndex.py: the literal data sets, the pure function   *)
(* jains_fairness_index and the script's double loop that splits each      *)
(* sample on '-', converts the tokens with float(), computes the index and *)
(* prints one labelled line.                                               *)
(*                                                                         *)
(* A Python str is modelled as a sequence of one-character strings, a      *)
(* Python float as an IEEE-754 binary64 value (sign, 53-bit significand    *)
(* held as a little-endian sequence of 15-bit limbs, binary exponent), and *)
(* every float operation rounds to nearest, ties to even, as the hardware  *)
(* does.                                                                   *)
(***************************************************************************)
EXTENDS Integers, Sequences, FiniteSets, TLC

(***************************************************************************)
(* Natural numbers of unbounded size: little-endian limb sequences with no *)
(* high zero limb; <<>> is 0.                                              *)
(***************************************************************************)
Base == 2^15

\* the highest position of a nonzero limb of a, or 0
TopLimb(a) ==
    IF \A i \in 1..Len(a) : a[i] = 0 THEN 0
    ELSE CHOOSE i \in 1..Len(a) : a[i] # 0 /\ \A j \in (i + 1)..Len(a) : a[j] = 0

\* a without its high zero limbs
BTrim(a) == SubSeq(a, 1, TopLimb(a))

\* the limbs of an int 0 <= n < 2^31
BFromInt(n) == BTrim(<<n % Base, (n \div Base) % Base, n \div (Base * Base)>>)

\* limb i of a, 0 above its top
Limb(a, i) == IF i <= Len(a) THEN a[i] ELSE 0

\* the int a natural below 2^30 is
BToInt(a) == Limb(a, 1) + Base * Limb(a, 2)

\* the highest position where a and b of equal length differ
TopDiff(a, b) ==
    CHOOSE i \in 1..Len(a) : a[i] # b[i] /\ \A j \in (i + 1)..Len(a) : a[j] = b[j]

\* -1, 0, 1 as a < b, a = b, a > b
BCmp(a, b) ==
    IF Len(a) < Len(b) THEN -1
    ELSE IF Len(a) > Len(b) THEN 1
    ELSE IF \A i \in 1..Len(a) : a[i] = b[i] THEN 0
    ELSE IF a[TopDiff(a, b)] < b[TopDiff(a, b)] THEN -1
    ELSE 1

\* the carry of a + b into limb i: some limb below i overflows, and every limb
\* between passes the carry on
CarryInto(a, b, i) ==
    \E j \in 1..(i - 1) :
        /\ Limb(a, j) + Limb(b, j) >= Base
        /\ \A k \in (j + 1)..(i - 1) : Limb(a, k) + Limb(b, k) = Base - 1

BAdd(a, b) ==
    IF a = <<>> THEN b
    ELSE IF b = <<>> THEN a
    ELSE
    BTrim([i \in 1..((IF Len(a) > Len(b) THEN Len(a) ELSE Len(b)) + 1) |->
             (Limb(a, i) + Limb(b, i) + (IF CarryInto(a, b, i) THEN 1 ELSE 0))
                 % Base])

\* the borrow of a - b from limb i
BorrowFrom(a, b, i) ==
    \E j \in 1..(i - 1) :
        /\ Limb(a, j) < Limb(b, j)
        /\ \A k \in (j + 1)..(i - 1) : Limb(a, k) = Limb(b, k)

\* a - b for a >= b
BSub(a, b) ==
    BTrim([i \in 1..Len(a) |->
             (a[i] - Limb(b, i) - (IF BorrowFrom(a, b, i) THEN 1 ELSE 0) + Base)
                 % Base])

\* a * k for 0 <= k < Base: the low halves of the limb products, plus their
\* high halves one limb up
BMulSmall(a, k) ==
    IF k = 0 \/ a = <<>> THEN <<>>
    ELSE BAdd([i \in 1..Len(a) |-> (a[i] * k) % Base],
              <<0>> \o [i \in 1..Len(a) |-> (a[i] * k) \div Base])

\* p + r * Base
BAddShifted(r, p) == IF r = <<>> THEN p ELSE BAdd(p, <<0>> \o r)

RECURSIVE BMulFrom(_, _, _)
\* a * (the limbs j.. of b)
BMulFrom(a, b, j) ==
    IF j > Len(b) THEN <<>>
    ELSE BAddShifted(BMulFrom(a, b, j + 1), BMulSmall(a, b[j]))

BMul(a, b) == IF a = <<>> \/ b = <<>> THEN <<>> ELSE BMulFrom(a, b, 1)

\* the number of bits of an int 0 <= n < Base
BitLenInt(n) == Cardinality({i \in 0..14 : 2^i <= n})

BBitLen(a) ==
    IF a = <<>> THEN 0 ELSE 15 * (Len(a) - 1) + BitLenInt(a[Len(a)])

BBit(a, i) ==
    LET l == (i \div 15) + 1
    IN  IF l > Len(a) THEN 0 ELSE (a[l] \div (2^(i % 15))) % 2

\* a * 2^k
BShl(a, k) ==
    IF a = <<>> THEN <<>>
    ELSE [i \in 1..(k \div 15) |-> 0] \o BMulSmall(a, 2^(k % 15))

\* floor(a / 2^k)
BShr(a, k) ==
    LET d == k \div 15
        r == k % 15
        up == IF d >= Len(a) THEN <<>> ELSE SubSeq(a, d + 1, Len(a))
    IN  BTrim([i \in 1..Len(up) |->
                 (up[i] \div (2^r))
                 + (IF i < Len(up) THEN (up[i + 1] % (2^r)) * (2^(15 - r)) ELSE 0)])

\* a mod 2^k
BLow(a, k) ==
    LET d == k \div 15
        r == k % 15
    IN  BTrim([i \in 1..(IF d + 1 <= Len(a) THEN d + 1 ELSE Len(a)) |->
                 IF i <= d THEN a[i] ELSE a[i] % (2^r)])

\* the two limbs of r2 that stand over the top limb of d (r2 < d * Base)
TopTwo(r2, d) ==
    (IF Len(r2) > Len(d) THEN r2[Len(d) + 1] * Base ELSE 0)
    + (IF Len(r2) >= Len(d) THEN r2[Len(d)] ELSE 0)

\* the estimate of floor(r2 / d) from the top limbs; with the top limb of d at
\* least Base / 2 it is the quotient limb, or above it by 1 or 2
QEstimate(r2, d) ==
    IF TopTwo(r2, d) \div d[Len(d)] >= Base THEN Base - 1
    ELSE TopTwo(r2, d) \div d[Len(d)]

\* the largest k <= est with d * k <= r2
QDigit(r2, d, est) ==
    IF BCmp(BMulSmall(d, est), r2) <= 0 THEN est
    ELSE IF BCmp(BMulSmall(d, est - 1), r2) <= 0 THEN est - 1
    ELSE est - 2

\* one step of schoolbook long division by d: r2 is the running remainder with
\* the next limb of the dividend brought down, q the quotient so far, k the
\* next quotient limb
StepOut(r2, q, d, k) ==
    IF k = 0 THEN <<BTrim(<<0>> \o q), r2>>
    ELSE <<(<<k>> \o q), BSub(r2, BMulSmall(d, k))>>

StepDigit(r2, q, d) ==
    IF BCmp(r2, d) < 0 THEN <<BTrim(<<0>> \o q), r2>>
    ELSE StepOut(r2, q, d, QDigit(r2, d, QEstimate(r2, d)))

RECURSIVE BDivModDown(_, _, _, _)
\* long division of n by d, limb i of n and the limbs below it still to be
\* brought down: qr is <<quotient, remainder>> of the limbs above i by d; the
\* top limb of d is at least Base / 2
BDivModDown(n, d, i, qr) ==
    IF i = 0 THEN qr
    ELSE IF qr[2] = <<>> /\ n[i] = 0
         THEN BDivModDown(n, d, i - 1, <<BTrim(<<0>> \o qr[1]), (<<>>)>>)
    ELSE BDivModDown(n, d, i - 1, StepDigit(<<n[i]>> \o qr[2], qr[1], d))

\* the quotient and the remainder of the operands shifted left by sh bits
Unshift(qr, sh) == <<qr[1], BShr(qr[2], sh)>>

BDivModNormal(n, d, sh) == Unshift(BDivModDown(n, d, Len(n), <<(<<>>), (<<>>)>>), sh)

BDivModShifted(n, d, sh) == BDivModNormal(BShl(n, sh), BShl(d, sh), sh)

\* <<floor(n / d), n mod d>> for d > 0
BDivMod(n, d) == BDivModShifted(n, d, 15 - BitLenInt(d[Len(d)]))

\* floor(a / k) and the int a mod k, for 0 < k < Base
SmallRemainder(qr) == <<qr[1], BToInt(qr[2])>>

BDivSmall(a, k) == SmallRemainder(BDivMod(a, <<k>>))

(***************************************************************************)
(* Python floats: IEEE-754 binary64.  A finite value is (-1)^s * m * 2^e   *)
(* with m below 2^53; it is kept canonical (m has exactly 53 bits, or      *)
(* e = MinExp for a subnormal), so that equal values are equal records.    *)
(* Zero is kept unsigned: the sign of a zero never reaches a result here   *)
(* (no value read from a sample is negative, and the index is a quotient   *)
(* of a square by a sum of squares).                                       *)
(***************************************************************************)
Precision == 53
MinExp == -1074
MaxExp == 971

NaN == [k |-> "nan"]
Inf(s) == [k |-> "inf", s |-> s]
Zero == [k |-> "fin", s |-> 0, m |-> <<>>, e |-> 0]

Fin(s, m, e) ==
    IF m = <<>> THEN Zero
    ELSE IF e > MaxExp THEN Inf(s)
    ELSE [k |-> "fin", s |-> s, m |-> m, e |-> e]

IsZero(f) == f.k = "fin" /\ f.m = <<>>

\* q or q + 1: q is floor(M / 2^sh) and c compares the bits shifted out with
\* one half (ties go to the even neighbour)
RoundUp(q, c) ==
    IF c > 0 \/ (c = 0 /\ BBit(q, 0) = 1) THEN BAdd(q, <<1>>) ELSE q

\* M / 2^sh rounded to the nearest natural, ties to even (sh > 0)
RoundShift(M, sh) ==
    RoundUp(BShr(M, sh), BCmp(BLow(M, sh), BShl(<<1>>, sh - 1)))

\* the exponent of the last place of a value m * 2^e whose m has L bits
TargetExp(e, L) ==
    IF e + L - Precision < MinExp THEN MinExp ELSE e + L - Precision

\* a rounded significand q at exponent t; rounding up may have carried into a
\* 54th bit
Renorm(s, q, t) ==
    IF BBitLen(q) > Precision THEN Fin(s, BShr(q, 1), t + 1) ELSE Fin(s, q, t)

FRoundTo(s, M, e, t) ==
    IF t <= e THEN Fin(s, BShl(M, e - t), t)
    ELSE Renorm(s, RoundShift(M, t - e), t)

\* the binary64 nearest to (-1)^s * M * 2^e, ties to even
FRound(s, M, e) ==
    IF M = <<>> THEN Zero ELSE FRoundTo(s, M, e, TargetExp(e, BBitLen(M)))

FNeg(f) ==
    IF f.k = "nan" \/ IsZero(f) THEN f
    ELSE [f EXCEPT !.s = 1 - f.s]

\* the sign and the magnitude of (-1)^sf * Mf + (-1)^sg * Mg
SumSign(sf, Mf, sg, Mg) ==
    IF sf = sg \/ BCmp(Mf, Mg) >= 0 THEN sf ELSE sg

SumMagnitude(sf, Mf, sg, Mg) ==
    IF sf = sg THEN BAdd(Mf, Mg)
    ELSE IF BCmp(Mf, Mg) >= 0 THEN BSub(Mf, Mg)
    ELSE BSub(Mg, Mf)

\* f + g for finite nonzero f, g, both significands aligned to exponent lo
FAddAligned(sf, Mf, sg, Mg, lo) ==
    FRound(SumSign(sf, Mf, sg, Mg), SumMagnitude(sf, Mf, sg, Mg), lo)

FAddAt(f, g, lo) ==
    FAddAligned(f.s, BShl(f.m, f.e - lo), g.s, BShl(g.m, g.e - lo), lo)

\* f + g
FAdd(f, g) ==
    IF f.k = "nan" \/ g.k = "nan" THEN NaN
    ELSE IF f.k = "inf"
         THEN (IF g.k = "inf" /\ g.s # f.s THEN NaN ELSE f)
    ELSE IF g.k = "inf" THEN g
    ELSE IF IsZero(f) THEN g
    ELSE IF IsZero(g) THEN f
    ELSE FAddAt(f, g, IF f.e < g.e THEN f.e ELSE g.e)

\* f - g
FSub(f, g) == FAdd(f, FNeg(g))

\* f * g
FMul(f, g) ==
    IF f.k = "nan" \/ g.k = "nan" THEN NaN
    ELSE IF f.k = "inf" \/ g.k = "inf"
         THEN (IF IsZero(f) \/ IsZero(g) THEN NaN ELSE Inf((f.s + g.s) % 2))
    ELSE IF IsZero(f) \/ IsZero(g) THEN Zero
    ELSE FRound((f.s + g.s) % 2, BMul(f.m, g.m), f.e + g.e)

\* how far n is shifted left so that floor(n * 2^sh / d) has more bits than
\* a significand
QuotShift(n, d) ==
    IF Precision + 4 + BBitLen(d) - BBitLen(n) > 0
    THEN Precision + 4 + BBitLen(d) - BBitLen(n)
    ELSE 0

\* qr is <<quotient, remainder>>: the quotient with one more bit below it that
\* says whether the remainder is nonzero, at exponent e
FromQuotient(s, qr, e) ==
    IF qr[2] = <<>> THEN FRound(s, BMulSmall(qr[1], 2), e)
    ELSE FRound(s, BAdd(BMulSmall(qr[1], 2), <<1>>), e)

\* the binary64 nearest to (-1)^s * (n / d) * 2^e, for naturals n, d > 0
FRoundQuot(s, n, d, e) ==
    FromQuotient(s, BDivMod(BShl(n, QuotShift(n, d)), d), e - QuotShift(n, d) - 1)

\* f / g for g nonzero
FDiv(f, g) ==
    IF f.k = "nan" \/ g.k = "nan" THEN NaN
    ELSE IF f.k = "inf"
         THEN (IF g.k = "inf" THEN NaN ELSE Inf((f.s + g.s) % 2))
    ELSE IF g.k = "inf" \/ IsZero(f) THEN Zero
    ELSE FRoundQuot((f.s + g.s) % 2, f.m, g.m, f.e - g.e)

\* fabs(f) >= fabs(g)
FAbsGe(f, g) ==
    IF f.k = "nan" \/ g.k = "nan" THEN FALSE
    ELSE IF f.k = "inf" THEN TRUE
    ELSE IF g.k = "inf" THEN FALSE
    ELSE IF IsZero(g) THEN TRUE
    ELSE IF IsZero(f) THEN FALSE
    ELSE f.e > g.e \/ (f.e = g.e /\ BCmp(f.m, g.m) >= 0)

\* float(n) for an int 0 <= n < 2^30
FFromInt(n) == FRound(0, BFromInt(n), 0)

(***************************************************************************)
(* Python str operations.  The characters a sample may hold here are the   *)
(* decimal digits, '.', the delimiter '-', and the letters of Alphabet;    *)
(* float() is modelled on the tokens that can be written with them (no     *)
(* whitespace, '+', '_' or exponent marker occurs).                        *)
(***************************************************************************)
Digits == <<"0", "1", "2", "3", "4", "5", "6", "7", "8", "9">>
Alphabet == {Digits[i] : i \in 1..10} \cup {".", "-", "n", "a", "i", "f", "x"}

IsDigit(c) == \E i \in 1..10 : Digits[i] = c
DigitVal(c) == (CHOOSE i \in 1..10 : Digits[i] = c) - 1

\* the positions of sep in s, in order, between 0 and Len(s) + 1
Cuts(s, sep) ==
    <<0>> \o SelectSeq([i \in 1..Len(s) |-> IF s[i] = sep THEN i ELSE 0],
                       LAMBDA i : i > 0) \o <<Len(s) + 1>>

\* the pieces of s between consecutive cuts
Pieces(s, cut) ==
    [j \in 1..(Len(cut) - 1) |-> SubSeq(s, cut[j] + 1, cut[j + 1] - 1)]

\* s.split(sep) for a one-character sep
Split(s, sep) == Pieces(s, Cuts(s, sep))

RECURSIVE DecToBig(_)
\* the natural number a string of decimal digits denotes
DecToBig(ds) ==
    IF ds = <<>> THEN <<>>
    ELSE BAdd(BMulSmall(DecToBig(SubSeq(ds, 1, Len(ds) - 1)), 10),
              BFromInt(DigitVal(ds[Len(ds)])))

RECURSIVE BPow10(_)
BPow10(n) == IF n = 0 THEN <<1>> ELSE BMulSmall(BPow10(n - 1), 10)

RECURSIVE BToDec(_)
\* the decimal digits of a natural number ("0" for zero)
BToDec(a) ==
    IF Len(a) <= 1 /\ BToInt(a) < 10 THEN <<Digits[BToInt(a) + 1]>>
    ELSE Append(BToDec(BDivSmall(a, 10)[1]), Digits[BDivSmall(a, 10)[2] + 1])

ValueError == [k |-> "ValueError"]

Dots(tok) == {i \in 1..Len(tok) : tok[i] = "."}

\* the number of digits after the decimal point
FracDigits(tok) ==
    IF Dots(tok) = {} THEN 0 ELSE Len(tok) - (CHOOSE i \in Dots(tok) : TRUE)

\* a conversion that reads the empty string as 0.0
PyFloatOrZero(tok) ==
    IF tok = <<>> THEN Zero
    ELSE IF \A i \in 1..Len(tok) : IsDigit(tok[i]) \/ tok[i] = "."
         THEN FRoundQuot(0, DecToBig(SelectSeq(tok, IsDigit)),
                         BPow10(FracDigits(tok)), 0)
    ELSE ValueError

\* float(tok) for a str: the value, or ValueError
PyFloat(tok) ==
    IF tok = <<"n", "a", "n">> THEN NaN
    ELSE IF tok = <<"i", "n", "f">>
            \/ tok = <<"i", "n", "f", "i", "n", "i", "t", "y">> THEN Inf(0)
    ELSE IF /\ \A i \in 1..Len(tok) : IsDigit(tok[i]) \/ tok[i] = "."
            /\ Cardinality(Dots(tok)) <= 1
            /\ \E i \in 1..Len(tok) : IsDigit(tok[i])
         THEN FRoundQuot(0, DecToBig(SelectSeq(tok, IsDigit)),
                         BPow10(FracDigits(tok)), 0)
    ELSE ValueError

\* |v| * 1000 rounded to the nearest natural, ties to even, for a finite v
Thousandths(v) ==
    IF v.e >= 0 THEN BShl(BMulSmall(v.m, 1000), v.e)
    ELSE RoundShift(BMulSmall(v.m, 1000), 0 - v.e)

\* the sign, the integer part qr[1] and the three decimals qr[2]
Fixed3(s, qr) ==
    (IF s = 1 THEN <<"-">> ELSE <<>>)
    \o BToDec(qr[1])
    \o <<".", Digits[(qr[2] \div 100) + 1], Digits[((qr[2] \div 10) % 10) + 1],
         Digits[(qr[2] % 10) + 1]>>

\* "{:.3f}".format(v) for v an int or a float
Format3(v) ==
    IF v.k = "int"
    THEN BToDec(BFromInt(v.v)) \o <<".", "0", "0", "0">>
    ELSE IF v.k = "nan" THEN <<"n", "a", "n">>
    ELSE IF v.k = "inf"
         THEN (IF v.s = 1 THEN <<"-">> ELSE <<>>) \o <<"i", "n", "f">>
    ELSE Fixed3(v.s, BDivSmall(Thousandths(v), 1000))

(***************************************************************************)
(* The literal data of the script.                                         *)
(***************************************************************************)
downlink2 ==
    <<"0", ".", "7", "5", "-", "0", ".", "1", "3">>

downlink5 ==
    <<"0", ".", "8", "1", "-", "0", ".", "4", "2", "-", "0", ".", "0", "9",
      "-", "0", ".", "1", "2", "-", "0", ".", "0", "7">>

downlink12 ==
    <<"0", ".", "0", "2", "-", "0", ".", "1", "6", "-", "0", ".", "0", "8",
      "-", "0", ".", "2", "1", "-", "0", ".", "0", "5", "-", "0", ".", "1",
      "-", "0", ".", "0", "2", "-", "0", ".", "3", "-", "0", ".", "3", "9",
      "-", "0", ".", "3", "6", "-", "0", ".", "0", "2", "-", "0", ".", "4",
      "4">>

downlink15 ==
    <<"0", ".", "2", "2", "-", "0", ".", "1", "5", "-", "0", ".", "0", "2",
      "-", "0", ".", "0", "6", "-", "0", ".", "0", "2", "-", "0", ".", "1",
      "2", "-", "0", ".", "2", "1", "-", "0", ".", "2", "8", "-", "0", ".",
      "2", "7", "-", "0", ".", "3", "3", "-", "0", ".", "0", "3", "-", "0",
      ".", "4", "1", "-", "0", ".", "3", "8", "-", "0", ".", "2", "6", "-",
      "0", ".", "0", "9">>

downlink20 ==
    <<"0", ".", "0", "2", "-", "0", ".", "2", "-", "0", ".", "0", "2", "-",
      "0", ".", "0", "3", "-", "0", ".", "0", "5", "-", "0", ".", "0", "4",
      "-", "0", ".", "0", "1", "-", "0", ".", "2", "4", "-", "0", ".", "1",
      "8", "-", "0", ".", "2", "3", "-", "0", ".", "0", "1", "-", "0", ".",
      "2", "4", "-", "0", ".", "3", "6", "-", "0", ".", "1", "5", "-", "0",
      ".", "1", "9", "-", "0", ".", "0", "1", "-", "0", ".", "1", "-", "0",
      ".", "1", "9", "-", "0", ".", "0", "1", "-", "0", ".", "3">>

Uplink2 ==
    <<"0", "-", "0", ".", "6", "9">>

Uplink5 ==
    <<"0", ".", "5", "1", "-", "0", ".", "3", "9", "-", "0", ".", "4", "4",
      "-", "0", ".", "1", "2", "-", "0", ".", "0", "2">>

Uplink12 ==
    <<"0", ".", "0", "5", "-", "0", ".", "3", "8", "-", "0", ".", "2", "2",
      "-", "0", ".", "2", "6", "-", "0", ".", "0", "2", "-", "0", ".", "3",
      "-", "0", "-", "0", ".", "3", "6", "-", "0", ".", "1", "2", "-", "0",
      ".", "2", "4", "-", "0", ".", "0", "5", "-", "0", ".", "4", "5">>

Uplink15 ==
    <<"0", ".", "1", "7", "-", "0", ".", "2", "6", "-", "0", ".", "1", "2",
      "-", "0", ".", "1", "-", "0", ".", "0", "5", "-", "0", ".", "2", "3",
      "-", "0", ".", "1", "9", "-", "0", ".", "3", "5", "-", "0", ".", "0",
      "9", "-", "0", ".", "2", "3", "-", "0", "-", "0", ".", "4", "-", "0",
      ".", "4", "2", "-", "0", ".", "3", "3", "-", "0", ".", "0", "9">>

Uplink20 ==
    <<"0", ".", "0", "2", "-", "0", ".", "1", "9", "-", "0", ".", "1", "4",
      "-", "0", ".", "1", "2", "-", "0", ".", "0", "2", "-", "0", ".", "0",
      "5", "-", "0", "-", "0", ".", "3", "3", "-", "0", "-", "0", ".", "1",
      "8", "-", "0", "-", "0", ".", "2", "3", "-", "0", ".", "2", "8", "-",
      "0", ".", "2", "1", "-", "0", ".", "0", "5", "-", "0", ".", "0", "2",
      "-", "0", ".", "0", "2", "-", "0", ".", "1", "-", "0", ".", "0", "2",
      "-", "0", ".", "2", "6">>

Pos1800 ==
    <<"0", ".", "3", "2", "-", "0", ".", "2", "-", "0", ".", "0", "5", "-",
      "0", ".", "3", "2", "-", "0", ".", "1", "6", "-", "0", ".", "3", "5",
      "-", "0", ".", "1", "6", "-", "0", ".", "3", "5", "-", "0", ".", "3",
      "-", "0", ".", "3", "2">>

Pos1900 ==
    <<"0", ".", "1", "9", "-", "0", ".", "1", "1", "-", "0", ".", "0", "3",
      "-", "0", ".", "1", "7", "-", "0", ".", "0", "5", "-", "0", ".", "2",
      "8", "-", "0", ".", "0", "2", "-", "0", ".", "1", "2", "-", "0", ".",
      "2", "1", "-", "0", ".", "2", "5">>

Pos2150 ==
    <<"0", "-", "0", "-", "0", ".", "0", "1", "-", "0", ".", "0", "1", "-",
      "0", "-", "0", "-", "0", ".", "0", "1", "-", "0", "-", "0", "-", "0">>

Pos2200 ==
    <<"0", "-", "0", "-", "0", "-", "0", "-", "0", "-", "0", "-", "0", "-",
      "0", "-", "0", "-", "0", ".", "0", "0", "0", "0", "1">>

downlinkList == <<downlink2, downlink5, downlink12, downlink15, downlink20>>
UplinkList == <<Uplink2, Uplink5, Uplink12, Uplink15, Uplink20>>
PositionList == <<Pos1800, Pos1900, Pos2150, Pos2200>>

(***************************************************************************)
(* Built-ins the script calls.                                             *)
(***************************************************************************)
PyInt(n) == [k |-> "int", v |-> n]
OverflowError == [k |-> "OverflowError"]
ZeroDivisionError == [k |-> "ZeroDivisionError"]
IsError(v) == v.k \in {"ValueError", "OverflowError", "ZeroDivisionError"}

\* seq.index(v): the first position (from 0) holding a value equal to v
Index(seq, v) ==
    (CHOOSE i \in 1..Len(seq) : seq[i] = v /\ \A j \in 1..(i - 1) : seq[j] # v) - 1

\* float_pow raises OverflowError when a finite value overflows
PowResult(r) == IF r.k = "inf" THEN OverflowError ELSE r

\* f ** 2 for a float f
FPow2(f) ==
    IF f.k = "nan" THEN NaN
    ELSE IF f.k = "inf" THEN Inf(0)
    ELSE PowResult(FMul(f, f))

\* a / b for floats a, b
PyTrueDiv(a, b) == IF IsZero(b) THEN ZeroDivisionError ELSE FDiv(a, b)

\* v != 0 for a float v (nan != 0 is True)
NotEqZero(v) == ~IsZero(v)

RECURSIVE SumOnto(_, _)
\* the items of the non-empty fs added to acc one by one, left to right: the
\* items of the first half are added first, then those of the second half (a
\* nan stays a nan whatever is added)
SumOnto(acc, fs) ==
    IF acc.k = "nan" THEN NaN
    ELSE IF Len(fs) = 1 THEN FAdd(acc, fs[1])
    ELSE SumOnto(SumOnto(acc, SubSeq(fs, 1, Len(fs) \div 2)),
                 SubSeq(fs, Len(fs) \div 2 + 1, Len(fs)))

\* sum(fs) of a non-empty sequence of floats, CPython up to 3.11: the int 0
\* plus the first float is that float, the rest are added left to right
PlainSum(fs) == IF Len(fs) = 1 THEN fs[1] ELSE SumOnto(fs[1], Tail(fs))

\* one item x added to the running sum p.hi, t being p.hi + x: the rounding
\* error of that addition goes to the compensation p.c
CompensatedAdd(p, x, t) ==
    [hi |-> t,
     c |-> FAdd(p.c, IF FAbsGe(p.hi, x)
                     THEN FAdd(FSub(p.hi, t), x)
                     ELSE FAdd(FSub(x, t), p.hi))]

CompensatedStep(p, x) == CompensatedAdd(p, x, FAdd(p.hi, x))

RECURSIVE CompensatedOnto(_, _)
\* the running sum and compensation p after the items of the non-empty fs,
\* taken one by one, left to right (once the running sum is a nan the total
\* is a nan)
CompensatedOnto(p, fs) ==
    IF p.hi.k = "nan" THEN p
    ELSE IF Len(fs) = 1 THEN CompensatedStep(p, fs[1])
    ELSE CompensatedOnto(CompensatedOnto(p, SubSeq(fs, 1, Len(fs) \div 2)),
                         SubSeq(fs, Len(fs) \div 2 + 1, Len(fs)))

\* the running sum and compensation after the items of fs, CPython 3.12 on
\* (Neumaier's summation in builtin sum's float path)
CompensatedPair(fs) ==
    IF Len(fs) = 1 THEN [hi |-> fs[1], c |-> Zero]
    ELSE CompensatedOnto([hi |-> fs[1], c |-> Zero], Tail(fs))

CompensatedTotal(p) ==
    IF ~IsZero(p.c) /\ p.c.k = "fin" THEN FAdd(p.hi, p.c) ELSE p.hi

CompensatedSum(fs) == CompensatedTotal(CompensatedPair(fs))

\* sum(fs) under the interpreter's summation, alg in SumAlgorithms
PySum(fs, alg) == IF alg = "plain" THEN PlainSum(fs) ELSE CompensatedSum(fs)

SumAlgorithms == {"plain", "compensated"}

(***************************************************************************)
(* def jains_fairness_index(throughputs)                                   *)
(***************************************************************************)
\* the quotient the other way round: denominator / numerator
InvertedQuotient(numerator, denominator) ==
    IF NotEqZero(numerator) THEN PyTrueDiv(denominator, numerator) ELSE PyInt(0)

\* the quotient without the test of the denominator
UnguardedQuotient(numerator, denominator) == PyTrueDiv(numerator, denominator)

\* fairness_index = numerator / denominator if denominator != 0 else 0
GuardedQuotient(numerator, denominator) ==
    IF NotEqZero(denominator) THEN PyTrueDiv(numerator, denominator) ELSE PyInt(0)

\* the index from the numerator and the squares of the throughputs
FairnessFrom(numerator, squares, num_users, alg) ==
    IF IsError(numerator) THEN numerator
    ELSE IF \E i \in 1..Len(squares) : IsError(squares[i]) THEN OverflowError
    ELSE GuardedQuotient(numerator, FMul(FFromInt(num_users), PySum(squares, alg)))

jains_fairness_index(throughputs, alg) ==
    IF Len(throughputs) = 0 THEN PyInt(0)
    ELSE FairnessFrom(FPow2(PySum(throughputs, alg)),
                      [i \in 1..Len(throughputs) |-> FPow2(throughputs[i])],
                      Len(throughputs), alg)

(***************************************************************************)
(* The script's state.  Its module-level names keep their names; listPos   *)
(* and xPos are the positions the two for loops have reached, stdout the   *)
(* lines printed so far, pc the place in the script, exception the error   *)
(* that ended the run, and pysum the interpreter's summation.  throughputs *)
(* and fairness_index are the argument and the result of a direct call of  *)
(* jains_fairness_index (specification SpecFn).                            *)
(***************************************************************************)
VARIABLES Lists, downlink_Uplink_Position, listPos, xPos, number_strings,
          numbersArray, JainFairnessIndex, stdout, pc, exception, pysum,
          throughputs, fairness_index

vars == <<Lists, downlink_Uplink_Position, listPos, xPos, number_strings,
          numbersArray, JainFairnessIndex, stdout, pc, exception, pysum,
          throughputs, fairness_index>>

scriptVars == <<Lists, downlink_Uplink_Position, listPos, xPos, number_strings,
                numbersArray, JainFairnessIndex, stdout, exception>>

(***************************************************************************)
(* Bounds and inputs.                                                      *)
(***************************************************************************)
MaxSamples == 1
MaxPosSamples == 5
MaxLen == 3
MaxExtra == 1

SeqsUpTo(S, n) == UNION {[1..k -> S] : k \in 0..n}

\* a sample holding the value -1 and a sample holding a nan
Negative == <<"0", ".", "5", "-", "-", "1">>
NotANumber == <<"n", "a", "n", "-", "0", ".", "5">>

SamplePool == {downlink2, Uplink2, Negative, NotANumber}
PosSamplePool == {downlink2, Uplink2, Negative}

\* the data sets a run is started on: the literal ones, the literal ones with
\* more position samples than frequency labels, and the ones made of pool
\* samples
InputLists ==
    {<<downlinkList, UplinkList, PositionList \o t>> :
            t \in SeqsUpTo(PosSamplePool, MaxExtra)}
    \cup {<<d, u, <<Uplink2>>>> :
            d \in SeqsUpTo(SamplePool, MaxSamples),
            u \in SeqsUpTo(SamplePool, MaxSamples)}
    \cup {<<(<<downlink2>>), (<<Uplink2>>), p>> :
            p \in SeqsUpTo(PosSamplePool, MaxPosSamples)}

ValueTokens ==
    {<<"0">>, <<"0", ".", "0", "1">>, <<"0", ".", "6", "9">>, <<"3">>}

ValuePool == {PyFloat(t) : t \in ValueTokens}

None == [k |-> "None"]

Init ==
    /\ Lists \in InputLists
    /\ pysum \in SumAlgorithms
    /\ downlink_Uplink_Position = "downlink with"
    /\ listPos = 0
    /\ xPos = 0
    /\ number_strings = <<>>
    /\ numbersArray = <<>>
    /\ JainFairnessIndex = None
    /\ stdout = <<>>
    /\ pc = "for list"
    /\ exception = "none"
    /\ throughputs = <<>>
    /\ fairness_index = None

(***************************************************************************)
(* for list in Lists: the next data set, and the label chosen from         *)
(* Lists.index(list)                                                       *)
(***************************************************************************)
\* the label chosen from the index counted from 1
CategoryLabelFromOne(list, label) ==
    IF Index(Lists, list) = 2 THEN "Uplink with"
    ELSE IF Index(Lists, list) = 3 THEN "position"
    ELSE label

CategoryLabel(list, label) ==
    IF Index(Lists, list) = 1 THEN "Uplink with"
    ELSE IF Index(Lists, list) = 2 THEN "position"
    ELSE label

NextList ==
    /\ pc = "for list"
    /\ listPos < Len(Lists)
    /\ listPos' = listPos + 1
    /\ downlink_Uplink_Position' =
          CategoryLabel(Lists[listPos + 1], downlink_Uplink_Position)
    /\ xPos' = 0
    /\ pc' = "for x"
    /\ UNCHANGED <<Lists, number_strings, numbersArray, JainFairnessIndex,
                   stdout, exception, pysum, throughputs, fairness_index>>

\* the outer loop is exhausted: the script ends
Finish ==
    /\ pc = "for list"
    /\ listPos = Len(Lists)
    /\ pc' = "done"
    /\ UNCHANGED <<scriptVars, pysum, throughputs, fairness_index>>

\* the inner loop is exhausted: back to the outer loop
EndList ==
    /\ pc = "for x"
    /\ xPos = Len(Lists[listPos])
    /\ pc' = "for list"
    /\ UNCHANGED <<scriptVars, pysum, throughputs, fairness_index>>

(***************************************************************************)
(* The body of for x in list.                                              *)
(***************************************************************************)
Line(label, n, unit, value) ==
    [label |-> label, n |-> n, unit |-> unit, value |-> value]

\* the lines the if / elif chain prints for sample x of list; value is the
\* formatted index
PositionLines(list, x, label, value) ==
    IF Index(list, x) = 0 THEN <<Line(label, 1800, "", value)>>
    ELSE IF Index(list, x) = 1 THEN <<Line(label, 1900, "", value)>>
    ELSE IF Index(list, x) = 2 THEN <<Line(label, 2150, "", value)>>
    ELSE IF Index(list, x) = 3 THEN <<Line(label, 2200, "", value)>>
    ELSE <<>>

Printed(list, x, label, strings, value) ==
    IF label = "position" THEN PositionLines(list, x, label, value)
    ELSE <<Line(label, Len(strings), "UE", value)>>

\* lines 65-77: the index is computed and the line printed
Report(list, x, strings, numbers, index) ==
    /\ numbersArray' = numbers
    /\ IF IsError(index)
       THEN /\ pc' = "raised"
            /\ exception' = index.k
            /\ UNCHANGED <<JainFairnessIndex, stdout>>
       ELSE /\ pc' = "for x"
            /\ JainFairnessIndex' = index
            /\ stdout' = stdout \o Printed(list, x, downlink_Uplink_Position,
                                           strings, Format3(index))
            /\ UNCHANGED exception

\* line 60: the tokens are converted, and the first bad one ends the run
Convert(list, x, strings, numbers) ==
    IF \E i \in 1..Len(numbers) : IsError(numbers[i])
    THEN /\ pc' = "raised"
         /\ exception' = "ValueError"
         /\ UNCHANGED <<numbersArray, JainFairnessIndex, stdout>>
    ELSE Report(list, x, strings, numbers, jains_fairness_index(numbers, pysum))

\* line 57: the sample is split
SplitSample(list, x, strings) ==
    /\ number_strings' = strings
    /\ Convert(list, x, strings, [i \in 1..Len(strings) |-> PyFloat(strings[i])])

ProcessSample ==
    /\ pc = "for x"
    /\ xPos < Len(Lists[listPos])
    /\ xPos' = xPos + 1
    /\ SplitSample(Lists[listPos], Lists[listPos][xPos + 1],
                   Split(Lists[listPos][xPos + 1], "-"))
    /\ UNCHANGED <<Lists, downlink_Uplink_Position, listPos, pysum,
                   throughputs, fairness_index>>

Next == NextList \/ ProcessSample \/ EndList \/ Finish

Spec == Init /\ [][Next]_vars

(***************************************************************************)
(* A direct call of jains_fairness_index on a sequence of floats.          *)
(***************************************************************************)
InitFn ==
    /\ throughputs \in SeqsUpTo(ValuePool, MaxLen)
    /\ pysum \in SumAlgorithms
    /\ fairness_index = None
    /\ pc = "call"
    /\ Lists = <<>>
    /\ downlink_Uplink_Position = "downlink with"
    /\ listPos = 0
    /\ xPos = 0
    /\ number_strings = <<>>
    /\ numbersArray = <<>>
    /\ JainFairnessIndex = None
    /\ stdout = <<>>
    /\ exception = "none"

Call ==
    /\ pc = "call"
    /\ fairness_index' = jains_fairness_index(throughputs, pysum)
    /\ pc' = "returned"
    /\ UNCHANGED <<scriptVars, pysum, throughputs>>

NextFn == Call

SpecFn == InitFn /\ [][NextFn]_vars

(***************************************************************************)
(* Properties.                                                             *)
(***************************************************************************)
LiteralLists == <<downlinkList, UplinkList, PositionList>>

Chars3(a, b, c) == <<"0", ".", a, b, c>>

\* C1 (as stated): in a run whose first sample is the literal "0.75-0.13", the
\* first line printed is "downlink with 2 UE: 0.897".
C1_FirstLineIs0897 ==
    (Len(Lists) = 3 /\ Lists[1] # <<>> /\ Lists[1][1] = downlink2 /\ stdout # <<>>)
        => stdout[1] = Line("downlink with", 2, "UE", Chars3("8", "9", "7"))

\* C1 (amended): in a run whose first sample is the literal "0.75-0.13", the
\* first line printed is "downlink with 2 UE: 0.668", the index
\* 0.88^2 / (2 * (0.75^2 + 0.13^2)) to three decimals.
C1_FirstLineIs0668 ==
    (Len(Lists) = 3 /\ Lists[1] # <<>> /\ Lists[1][1] = downlink2 /\ stdout # <<>>)
        => stdout[1] = Line("downlink with", 2, "UE", Chars3("6", "6", "8"))

C1_Witness ==
    /\ Lists = LiteralLists
    /\ Len(stdout) >= 1
    /\ numbersArray # <<>>

One == FFromInt(1)

\* a non-negative finite value that is at most 1
InUnitInterval(v) ==
    \/ v.k = "int" /\ v.v \in {0, 1}
    \/ v.k = "fin" /\ v.s = 0 /\ FAbsGe(One, v)

IsPositive(v) == v.k = "fin" /\ v.s = 0 /\ v.m # <<>>

SomePositive(fs) == \E i \in 1..Len(fs) : IsPositive(fs[i])

\* C2: for every sequence of non-negative values the result is in [0, 1], and
\* it is above 0 when some value is positive.
C2_ResultInUnitInterval ==
    pc = "returned"
        => /\ InUnitInterval(fairness_index)
           /\ SomePositive(throughputs) => IsPositive(fairness_index)

\* C3: N >= 1 copies of one positive value give exactly 1.
C3_EqualValuesGiveOne ==
    (/\ pc = "returned"
     /\ Len(throughputs) >= 1
     /\ IsPositive(throughputs[1])
     /\ \A i \in 1..Len(throughputs) : throughputs[i] = throughputs[1])
        => fairness_index = One

\* C4: the function never divides by zero: the empty sequence and every
\* sequence of zeros give the int 0, and no call ends in ZeroDivisionError.
C4_NoDivisionByZero ==
    pc = "returned"
        => /\ fairness_index.k # "ZeroDivisionError"
           /\ (\A i \in 1..Len(throughputs) : IsZero(throughputs[i]))
                 => fairness_index = PyInt(0)

C4_Witness ==
    /\ pc = "returned"
    /\ Len(throughputs) = 3
    /\ \A i \in 1..3 : IsZero(throughputs[i])
    /\ fairness_index = PyInt(0)

Head3(label, n, unit) == [label |-> label, n |-> n, unit |-> unit]

\* the label part of each printed line
Heads(lines) ==
    [i \in 1..Len(lines) |-> Head3(lines[i].label, lines[i].n, lines[i].unit)]

ExpectedHeads ==
    <<Head3("downlink with", 2, "UE"), Head3("downlink with", 5, "UE"),
      Head3("downlink with", 12, "UE"), Head3("downlink with", 15, "UE"),
      Head3("downlink with", 20, "UE"),
      Head3("Uplink with", 2, "UE"), Head3("Uplink with", 5, "UE"),
      Head3("Uplink with", 12, "UE"), Head3("Uplink with", 15, "UE"),
      Head3("Uplink with", 20, "UE"),
      Head3("position", 1800, ""), Head3("position", 1900, ""),
      Head3("position", 2150, ""), Head3("position", 2200, "")>>

RECURSIVE SamplesBefore(_)
\* the number of samples in the first k data sets
SamplesBefore(k) ==
    IF k = 0 THEN 0 ELSE SamplesBefore(k - 1) + Len(Lists[k])

\* the number of samples the loops have gone through
Processed == IF listPos = 0 THEN 0 ELSE SamplesBefore(listPos - 1) + xPos

\* the number of steps the loops have taken
StepsTaken ==
    Processed + 2 * listPos - (IF pc = "for x" THEN 1 ELSE 0)
              + (IF pc = "done" THEN 1 ELSE 0)

\* the steps of the run over the literal data sets: 3 entries into a data
\* set, 14 samples, 3 ends of a data set and the end of the script
LiteralSteps == Len(ExpectedHeads) + 2 * Len(LiteralLists) + 1

\* C5: over the literal data sets the run prints one line per sample gone
\* through, the 14 lines in the declared order (5 downlink, 5 uplink, 4
\* position), raises nothing, and terminates: every step is the next of its
\* 21 steps, and the script has ended with the 14 lines printed.
C5_LiteralRunPrintsInOrder ==
    /\ [](Lists = LiteralLists
            => /\ pc # "raised"
               /\ Heads(stdout) = SubSeq(ExpectedHeads, 1, Processed)
               /\ pc = "done" => Heads(stdout) = ExpectedHeads)
    /\ [][Lists = LiteralLists
            => /\ StepsTaken' = StepsTaken + 1
               /\ StepsTaken' <= LiteralSteps]_vars

C5_Witness ==
    /\ Lists = LiteralLists
    /\ pc = "done"
    /\ Len(stdout) = 14

\* C6: with more than 4 position samples, the run has failed with an error
\* once the sample at index 4 has been gone through.
C6_FailsBeyondLabels ==
    (/\ Len(Lists) = 3
     /\ listPos = 3
     /\ Len(Lists[3]) > 4
     /\ xPos > 4)
        => pc = "raised"

\* a decimal numeral: digits with at most one '.', and at least one digit
IsNumeral(tok) ==
    /\ \A i \in 1..Len(tok) : tok[i] \in {Digits[d] : d \in 1..10} \cup {"."}
    /\ Cardinality({i \in 1..Len(tok) : tok[i] = "."}) <= 1
    /\ \E i \in 1..Len(tok) : tok[i] # "."

\* the spellings of the special values
IsSpecial(tok) ==
    tok \in {<<"n", "a", "n">>, <<"i", "n", "f">>,
             <<"i", "n", "f", "i", "n", "i", "t", "y">>}

\* the sample the inner loop has gone through last
LastSample == Lists[listPos][xPos]

\* C7 (as stated): a sample with a token that is no decimal numeral stops the
\* run at that sample with a parse error.
C7_NonNumeralStopsRun ==
    (/\ pc \in {"for x", "raised"}
     /\ xPos >= 1
     /\ \E j \in 1..Len(Split(LastSample, "-")) : ~IsNumeral(Split(LastSample, "-")[j]))
        => (pc = "raised" /\ exception = "ValueError")

\* the next sample holds a token float() rejects
NextSampleRejected ==
    /\ pc = "for x"
    /\ xPos < Len(Lists[listPos])
    /\ \E j \in 1..Len(Split(Lists[listPos][xPos + 1], "-")) :
          /\ ~IsNumeral(Split(Lists[listPos][xPos + 1], "-")[j])
          /\ ~IsSpecial(Split(Lists[listPos][xPos + 1], "-")[j])

\* C7 (amended): when the run reaches a sample with a token that float()
\* rejects (neither a decimal numeral nor nan, inf, infinity), it stops there
\* with ValueError: the lines printed so far remain, none is added, and no
\* step follows.
C7_RejectedTokenStopsRun ==
    [][/\ pc # "raised"
       /\ NextSampleRejected
             => (pc' = "raised" /\ exception' = "ValueError" /\ stdout' = stdout)]_vars

C7_Witness ==
    /\ pc = "raised"
    /\ exception = "ValueError"
    /\ listPos = 3
    /\ xPos = 2
    /\ Len(stdout) = 3

\* exactly one value of fs is positive and the others are 0
OnePositive(fs) ==
    /\ Cardinality({i \in 1..Len(fs) : IsPositive(fs[i])}) = 1
    /\ \A i \in 1..Len(fs) : IsPositive(fs[i]) \/ IsZero(fs[i])

\* 1 / n as the interpreter computes it
OneOver(n) == FDiv(One, FFromInt(n))

\* C8: with a nonzero denominator the result is at least 1/N, and it is
\* exactly 1/N when one value is positive and the others are 0.
C8_AtLeastOneOverN ==
    (pc = "returned" /\ SomePositive(throughputs))
        => /\ fairness_index.k = "fin"
           /\ FAbsGe(fairness_index, OneOver(Len(throughputs)))
           /\ OnePositive(throughputs)
                 => fairness_index = OneOver(Len(throughputs))

FrequencyLabels == <<1800, 1900, 2150, 2200>>

\* C9: in a position data set of 1 to 4 samples, the line of the sample at
\* index i carries the frequency label of index i, also when samples are
\* equal strings.  (Stated for the runs in which the label variable is
\* "position", so that what fails is the frequency label alone.)
C9_LabelFollowsPosition ==
    (/\ Len(Lists) = 3
     /\ listPos = 3
     /\ downlink_Uplink_Position = "position"
     /\ Len(Lists[3]) \in 1..4
     /\ pc = "for x"
     /\ Len(stdout) = Len(Lists[1]) + Len(Lists[2]) + xPos)
        => \A i \in 1..xPos :
              stdout[Len(Lists[1]) + Len(Lists[2]) + i].n = FrequencyLabels[i]

Categories == <<"downlink with", "Uplink with", "position">>

\* C10: every line printed while the k-th data set is gone through carries the
\* k-th category's label, with the number of values of the sample (first two
\* data sets) or a frequency (third).
C10_LineCarriesCategory ==
    [][Len(stdout') > Len(stdout)
          => /\ stdout'[Len(stdout')].label = Categories[listPos]
             /\ listPos < 3 => /\ stdout'[Len(stdout')].unit = "UE"
                               /\ stdout'[Len(stdout')].n = Len(number_strings')
             /\ listPos = 3 => stdout'[Len(stdout')].unit = ""]_vars

=============================================================================
